---- MODULE Spec2Model ----
(***************************************************************************)
(* Bot lifecycle manager (TelegramService), the in-memory store            *)
(* (MemStorage) and the HTTP routes that drive them.                       *)
(*                                                                         *)
(* Scheduling: one event loop.  A handler runs from the point where it is  *)
(* resumed up to its next outbound network call (getMe, startPolling,      *)
(* stopPolling, the completion request, sendMessage); that stretch is one  *)
(* action.  MemStorage methods contain no await of their own, so their     *)
(* effect takes place inside the stretch that calls them.  The return of   *)
(* createBot / stopBot to its caller is a microtask: it is a state of its  *)
(* own (pc "createRet" / "stopRet") that is run before anything else.      *)
(***************************************************************************)
EXTENDS Integers, Sequences, FiniteSets, TLC

\* ---------------------------------------------------------------- bounds
MaxBots  == 2      \* ids storage.createBot hands out (randomUUID, never reused)
MaxConns == 2      \* TelegramBot objects constructed in one run
MaxProcs == 2      \* requests / callbacks in flight at once
MaxMsgs  == 4      \* BotMessage records created in one run
MaxLog   == 3      \* BotMessage records created by direct calls of the store
MaxNow   == 2      \* milliseconds the clock advances
MaxLimit == 3      \* largest limit a query names
MaxFiles == 3      \* files of the project a sync is given
MaxSyncs == 2      \* sync calls in one run
MaxProjects == 2   \* project ids the store hands out
MaxStored == 2     \* file ids the store hands out

\* ------------------------------------------------------- program constants
MinTokenLen == 20  \* token.length < 20
DefaultLimit == 50 \* getBotMessages(botId, limit = 50)

BotIds == 1..MaxBots
Procs  == 1..MaxProcs

\* A token is what the structural check reads of it: its length and whether
\* it starts with 'bot'.
Tokens ==
  { [len |-> 0,  prefix |-> FALSE],
    [len |-> 19, prefix |-> TRUE],
    [len |-> 20, prefix |-> FALSE],
    [len |-> 20, prefix |-> TRUE] }

\* JavaScript null / undefined, and the truthiness of a string-or-null value
Null == "<null>"
Truthy(s) == s # "" /\ s # Null
TokenTruthy(t) == t.len > 0

\* (mutant) the structural check without its length test
TokenFormatBadNoLen(t) == ~TokenTruthy(t) \/ ~t.prefix

\* !token || !token.startsWith('bot') || token.length < 20
TokenFormatBad(t) == ~TokenTruthy(t) \/ ~t.prefix \/ t.len < MinTokenLen

VARIABLES
  bots,         \* MemStorage.bots: key -> Bot record
  nextBot,      \* number of bot ids handed out so far
  botMessages,  \* MemStorage.botMessages, in creation order
  tbots,        \* TelegramService.bots: bot id -> connection
  conns,        \* every TelegramBot object constructed, in construction order
  procs,        \* the requests and callbacks in flight
  fresh,        \* id whose createBot returned true with no createBot/stopBot call since, or 0
  tg,           \* the run of consecutive toggle requests on one id now under way
  last,         \* what the latest step did that the outside can observe
  now,          \* the clock new Date() reads, in milliseconds
  result,       \* what the latest direct call of a MemStorage method returned
  sync,         \* the syncProjectToGitHub call under way or just ended (n: calls so far)
  remote,       \* the paths written to the repository, in the order of the commits
  projects,     \* MemStorage.projects: key -> Project record
  files,        \* MemStorage.files: key -> File record
  nextProject,  \* number of project ids handed out so far
  nextFile      \* number of file ids handed out so far

\* the state of TelegramService, the routes and their bookkeeping
service == <<tbots, conns, procs, fresh, tg, last>>
\* what the requests and callbacks of the bot lifecycle leave alone
others == <<now, result, sync, remote, projects, files, nextProject, nextFile>>
\* the source-hosting side
github == <<sync, remote>>
\* the projects and files of the store
projectStore == <<projects, files, nextProject, nextFile>>
vars == <<bots, nextBot, botMessages, tbots, conns, procs, fresh, tg, last, now, result,
          sync, remote, projects, files, nextProject, nextFile>>

\* ----------------------------------------------------------------- store
MapSet(m, k, v) == (k :> v) @@ m
MapDelete(m, k) == [x \in (DOMAIN m) \ {k} |-> m[x]]

\* { ...bot, ...updates } restricted to the fields the model keeps
Merge(b, u) == [f \in DOMAIN b |-> IF f \in DOMAIN u THEN u[f] ELSE b[f]]

\* MemStorage.updateBot: a missing id is a no-op
UpdateBot(bs, id, u) ==
  IF id \in DOMAIN bs THEN MapSet(bs, id, Merge(bs[id], u)) ELSE bs

\* MemStorage.createBot: { ...insertBot, id, isActive: insertBot.isActive || false },
\* with the fields of insertBot the caller's model keeps
NewBot(id, insertBot) ==
  [f \in DOMAIN insertBot \cup {"id", "isActive"} |->
     IF f = "id" THEN id
     ELSE IF f = "isActive" THEN ("isActive" \in DOMAIN insertBot /\ insertBot.isActive)
     ELSE insertBot[f]]

\* MemStorage.deleteBot
DeleteBot(bs, id) == MapDelete(bs, id)

\* ------------------------------------------------------------- processes
IdleProc ==
  [op |-> "none", pc |-> "idle", id |-> 0, bid |-> 0, tok |-> [len |-> 0, prefix |-> FALSE],
   snap |-> FALSE, conn |-> 0, ret |-> FALSE, follow |-> FALSE, willCreate |-> FALSE,
   willLog |-> 0, text |-> Null, reply |-> Null, todo |-> {}]

\* The observable part of one step: the route or callback it belongs to (op), whether
\* it is the step that starts it, the id it was called with, the HTTP status when the
\* step sends the response (0: none; on a service step 1: the awaited call threw),
\* the outbound calls the step issues, the connection stopBot found in the registry
\* (0: none), and the message text and reply of a message step.
NoEvent == [op |-> "none", start |-> FALSE, id |-> 0, status |-> 0, calls |-> {}, conn |-> 0,
            text |-> Null, reply |-> Null, error |-> Null]
Event(op, id, status, calls) == [NoEvent EXCEPT !.op = op, !.id = id, !.status = status, !.calls = calls]
StartEvent(op, id, status, calls) == [Event(op, id, status, calls) EXCEPT !.start = TRUE]

\* n toggle requests on id have completed one after the other, nothing else having
\* started in between, all of them with status 200 (ok); flag0 and reg0 are the stored
\* isActive flag and the presence of a registry entry when the first one started.
NoResult == [op |-> "none"]
NoSync == [status |-> "none", files |-> <<>>, i |-> 0, base |-> 0, n |-> 0]
NoToggles == [id |-> 0, n |-> 0, ok |-> TRUE, flag0 |-> FALSE, reg0 |-> FALSE]

Idle(p) == procs[p].pc = "idle"
AllIdle == \A p \in Procs : Idle(p)

\* A pending microtask (the return of a service call to its awaiting caller)
\* runs before any other event.
Urgent(p) == procs[p].pc \in {"createRet", "stopRet"}
NoUrgent == \A p \in Procs : ~Urgent(p)

\* connection objects the requests in flight may still construct
Reserved == Cardinality({p \in Procs : procs[p].willCreate})
CanCreate == Len(conns) + Reserved < MaxConns

Init ==
  /\ bots = <<>>
  /\ nextBot = 0
  /\ botMessages = <<>>
  /\ tbots = <<>>
  /\ conns = <<>>
  /\ procs = [p \in Procs |-> IdleProc]
  /\ fresh = 0
  /\ tg = NoToggles
  /\ last = NoEvent
  /\ now = 0
  /\ result = NoResult
  /\ sync = NoSync
  /\ remote = <<>>
  /\ projects = <<>>
  /\ files = <<>>
  /\ nextProject = 0
  /\ nextFile = 0

\* ------------------------------------------------------ TelegramService
\* createBot up to its first network call: the structural check, then
\* new TelegramBot(token, {autoStart: false}) and bot.getMe()
EnterCreateBot(pr, bs, botId, token) ==
  IF TokenFormatBad(token)
  THEN [bots  |-> UpdateBot(bs, botId, [isActive |-> FALSE]),
        conns |-> conns,
        calls |-> {},
        proc  |-> [pr EXCEPT !.pc = "createRet", !.bid = botId, !.tok = token,
                             !.ret = FALSE, !.conn = 0, !.willCreate = FALSE]]
  ELSE [bots  |-> bs,
        conns |-> Append(conns, [botId |-> botId, token |-> token, polling |-> FALSE]),
        calls |-> {"new", "getMe"},
        proc  |-> [pr EXCEPT !.pc = "getMe", !.bid = botId, !.tok = token,
                             !.ret = FALSE, !.conn = Len(conns) + 1, !.willCreate = FALSE]]

\* (mutant) stopBot that answers true when the registry holds no entry
EnterStopBotAlwaysTrue(pr, botId) ==
  IF botId \in DOMAIN tbots
  THEN [calls |-> {"stopPolling"},
        proc  |-> [pr EXCEPT !.pc = "stopPolling", !.bid = botId, !.conn = tbots[botId],
                             !.ret = FALSE, !.follow = (fresh = botId)]]
  ELSE [calls |-> {},
        proc  |-> [pr EXCEPT !.pc = "stopRet", !.bid = botId, !.conn = 0,
                             !.ret = TRUE, !.follow = (fresh = botId)]]

\* stopBot up to its network call: this.bots.get(botId), then bot.stopPolling()
EnterStopBot(pr, botId) ==
  IF botId \in DOMAIN tbots
  THEN [calls |-> {"stopPolling"},
        proc  |-> [pr EXCEPT !.pc = "stopPolling", !.bid = botId, !.conn = tbots[botId],
                             !.ret = FALSE, !.follow = (fresh = botId)]]
  ELSE [calls |-> {},
        proc  |-> [pr EXCEPT !.pc = "stopRet", !.bid = botId, !.conn = 0,
                             !.ret = FALSE, !.follow = (fresh = botId)]]

\* (mutant) createBot whose catch block does not mark the bot inactive
GetMeResumeNoMark(p, ok) ==
  /\ NoUrgent
  /\ procs[p].pc = "getMe"
  /\ IF ok
     THEN /\ procs' = [procs EXCEPT ![p].pc = "startPolling"]
          /\ last' = Event("createBot", procs[p].bid, 0, {"startPolling"})
     ELSE /\ procs' = [procs EXCEPT ![p].pc = "createRet", ![p].ret = FALSE]
          /\ last' = Event("createBot", procs[p].bid, 1, {})
  /\ UNCHANGED <<bots, nextBot, botMessages, tbots, conns, fresh, tg>>

\* await bot.getMe() resumes: the platform accepted the token, or the call threw
GetMeResume(p, ok) ==
  /\ NoUrgent
  /\ procs[p].pc = "getMe"
  /\ IF ok
     THEN /\ procs' = [procs EXCEPT ![p].pc = "startPolling"]
          /\ last' = Event("createBot", procs[p].bid, 0, {"startPolling"})
          /\ UNCHANGED bots
     ELSE /\ bots' = UpdateBot(bots, procs[p].bid, [isActive |-> FALSE])
          /\ procs' = [procs EXCEPT ![p].pc = "createRet", ![p].ret = FALSE]
          /\ last' = Event("createBot", procs[p].bid, 1, {})
  /\ UNCHANGED <<nextBot, botMessages, tbots, conns, fresh, tg>>

\* await bot.startPolling() resumes
StartPollingResume(p, ok) ==
  /\ NoUrgent
  /\ procs[p].pc = "startPolling"
  /\ IF ok
     THEN /\ conns' = [conns EXCEPT ![procs[p].conn].polling = TRUE]
          /\ tbots' = MapSet(tbots, procs[p].bid, procs[p].conn)
          /\ bots' = UpdateBot(bots, procs[p].bid, [isActive |-> TRUE])
          /\ procs' = [procs EXCEPT ![p].pc = "createRet", ![p].ret = TRUE]
          /\ fresh' = procs[p].bid
          /\ last' = Event("createBot", procs[p].bid, 0, {})
     ELSE /\ bots' = UpdateBot(bots, procs[p].bid, [isActive |-> FALSE])
          /\ procs' = [procs EXCEPT ![p].pc = "createRet", ![p].ret = FALSE]
          /\ last' = Event("createBot", procs[p].bid, 1, {})
          /\ UNCHANGED <<tbots, conns, fresh>>
  /\ UNCHANGED <<nextBot, botMessages, tg>>

\* (mutant) stopBot that forgets this.bots.delete(botId)
StopPollingResumeKeepsEntry(p, ok) ==
  /\ NoUrgent
  /\ procs[p].pc = "stopPolling"
  /\ conns' = [conns EXCEPT ![procs[p].conn].polling = FALSE]
  /\ bots' = UpdateBot(bots, procs[p].bid, [isActive |-> FALSE])
  /\ procs' = [procs EXCEPT ![p].pc = "stopRet", ![p].ret = TRUE]
  /\ last' = [Event("stopBot", procs[p].bid, IF ok THEN 0 ELSE 1, {}) EXCEPT !.conn = procs[p].conn]
  /\ UNCHANGED <<nextBot, botMessages, tbots, fresh, tg>>

\* (mutant) stopBot that gives up when stopPolling throws
StopPollingResumeGivesUp(p, ok) ==
  /\ NoUrgent
  /\ procs[p].pc = "stopPolling"
  /\ conns' = [conns EXCEPT ![procs[p].conn].polling = FALSE]
  /\ tbots' = IF ok THEN MapDelete(tbots, procs[p].bid) ELSE tbots
  /\ bots' = IF ok THEN UpdateBot(bots, procs[p].bid, [isActive |-> FALSE]) ELSE bots
  /\ procs' = [procs EXCEPT ![p].pc = "stopRet", ![p].ret = ok]
  /\ last' = [Event("stopBot", procs[p].bid, IF ok THEN 0 ELSE 1, {}) EXCEPT !.conn = procs[p].conn]
  /\ UNCHANGED <<nextBot, botMessages, fresh, tg>>

\* await bot.stopPolling() resumes.  stopPolling ends the polling loop; if the
\* awaited promise rejects, the error is logged and stopBot goes on.
StopPollingResume(p, ok) ==
  /\ NoUrgent
  /\ procs[p].pc = "stopPolling"
  /\ conns' = [conns EXCEPT ![procs[p].conn].polling = FALSE]
  /\ tbots' = MapDelete(tbots, procs[p].bid)
  /\ bots' = UpdateBot(bots, procs[p].bid, [isActive |-> FALSE])
  /\ procs' = [procs EXCEPT ![p].pc = "stopRet", ![p].ret = TRUE]
  /\ last' = [Event("stopBot", procs[p].bid, IF ok THEN 0 ELSE 1, {}) EXCEPT !.conn = procs[p].conn]
  /\ UNCHANGED <<nextBot, botMessages, fresh, tg>>

\* ---------------------------------------------------------------- routes
\* POST /api/bots: storage.createBot, then telegramService.createBot
PostStart(p, token, active) ==
  /\ Idle(p) /\ NoUrgent
  /\ nextBot < MaxBots
  /\ CanCreate
  /\ LET id == nextBot + 1
         r  == EnterCreateBot([IdleProc EXCEPT !.op = "post", !.id = id],
                              MapSet(bots, id, NewBot(id, [telegramToken |-> token, isActive |-> active])),
                              id, token)
     IN /\ bots' = r.bots
        /\ conns' = r.conns
        /\ procs' = [procs EXCEPT ![p] = r.proc]
        /\ last' = StartEvent("post", id, 0, r.calls)
  /\ nextBot' = nextBot + 1
  /\ fresh' = 0
  /\ UNCHANGED <<botMessages, tbots>>

\* The bodies a PATCH request carries: req.body is passed to storage.updateBot
\* as it is.  The empty body stands for one that names other fields only.
PatchBodies ==
  {<<>>} \cup {[isActive |-> b] : b \in BOOLEAN}
         \cup {[telegramToken |-> t] : t \in Tokens}
         \cup {[id |-> k] : k \in BotIds}

HasToken(body) == "telegramToken" \in DOMAIN body /\ TokenTruthy(body.telegramToken)

\* PATCH /api/bots/:id
PatchStart(p, id, body) ==
  /\ Idle(p) /\ NoUrgent
  \* an id a body names is one the store has handed out: no later randomUUID equals it
  /\ "id" \in DOMAIN body => body.id <= nextBot
  /\ IF id \notin DOMAIN bots
     THEN /\ last' = StartEvent("patch", id, 404, {})
          /\ UNCHANGED <<bots, procs, fresh>>
     ELSE LET bs1 == UpdateBot(bots, id, body)
          IN /\ bots' = bs1
             /\ IF HasToken(body)
                THEN /\ CanCreate
                     /\ LET r == EnterStopBot([IdleProc EXCEPT !.op = "patch", !.id = id,
                                                 !.tok = body.telegramToken, !.willCreate = TRUE],
                                              bs1[id].id)
                        IN /\ procs' = [procs EXCEPT ![p] = r.proc]
                           /\ last' = StartEvent("patch", id, 0, r.calls)
                     /\ fresh' = 0
                ELSE /\ last' = StartEvent("patch", id, 200, {})
                     /\ UNCHANGED <<procs, fresh>>
  /\ UNCHANGED <<nextBot, botMessages, tbots, conns>>

\* DELETE /api/bots/:id
DeleteStart(p, id) ==
  /\ Idle(p) /\ NoUrgent
  /\ LET r == EnterStopBot([IdleProc EXCEPT !.op = "delete", !.id = id], id)
     IN /\ procs' = [procs EXCEPT ![p] = r.proc]
        /\ last' = StartEvent("delete", id, 0, r.calls)
  /\ fresh' = 0
  /\ UNCHANGED <<bots, nextBot, botMessages, tbots, conns>>

\* POST /api/bots/:id/toggle
ToggleStart(p, id) ==
  /\ Idle(p) /\ NoUrgent
  /\ IF id \notin DOMAIN bots
     THEN /\ last' = StartEvent("toggle", id, 404, {})
          /\ UNCHANGED <<bots, conns, procs, fresh>>
     ELSE LET bot == bots[id]
              pr  == [IdleProc EXCEPT !.op = "toggle", !.id = id, !.snap = bot.isActive]
          IN IF bot.isActive
             THEN LET r == EnterStopBot(pr, bot.id)
                  IN /\ procs' = [procs EXCEPT ![p] = r.proc]
                     /\ last' = StartEvent("toggle", id, 0, r.calls)
                     /\ fresh' = 0
                     /\ UNCHANGED <<bots, conns>>
             ELSE /\ CanCreate
                  /\ LET r == EnterCreateBot(pr, bots, bot.id, bot.telegramToken)
                     IN /\ bots' = r.bots
                        /\ conns' = r.conns
                        /\ procs' = [procs EXCEPT ![p] = r.proc]
                        /\ last' = StartEvent("toggle", id, 0, r.calls)
                  /\ fresh' = 0
  /\ UNCHANGED <<nextBot, botMessages, tbots>>

\* (mutant) a toggle that stores { isActive: false } whichever way it went
ToggleFinishAlwaysOff(p) ==
  /\ IF procs[p].ret
     THEN /\ bots' = UpdateBot(bots, procs[p].bid, [isActive |-> FALSE])
          /\ last' = Event("toggle", procs[p].id, 200, {})
     ELSE /\ last' = Event("toggle", procs[p].id, 500, {})
          /\ UNCHANGED bots
  /\ procs' = [procs EXCEPT ![p] = IdleProc]
  /\ tg' = IF tg.id = procs[p].id /\ tg.n < 2
           THEN [tg EXCEPT !.n = @ + 1, !.ok = @ /\ procs[p].ret]
           ELSE tg
  /\ UNCHANGED <<conns, fresh>>

\* if (success) storage.updateBot(bot.id, { isActive: !bot.isActive }) else 500
ToggleFinish(p) ==
  /\ IF procs[p].ret
     THEN /\ bots' = UpdateBot(bots, procs[p].bid, [isActive |-> ~procs[p].snap])
          /\ last' = Event("toggle", procs[p].id, 200, {})
     ELSE /\ last' = Event("toggle", procs[p].id, 500, {})
          /\ UNCHANGED bots
  /\ procs' = [procs EXCEPT ![p] = IdleProc]
  /\ tg' = IF tg.id = procs[p].id /\ tg.n < 2
           THEN [tg EXCEPT !.n = @ + 1, !.ok = @ /\ procs[p].ret]
           ELSE tg
  /\ UNCHANGED <<conns, fresh>>

\* (mutant) POST /api/bots that answers 400 without storage.deleteBot
CreateReturnKeepsRecord(p) ==
  /\ procs[p].pc = "createRet"
  /\ CASE procs[p].op = "post" ->
            /\ last' = [Event("post", procs[p].id, IF procs[p].ret THEN 201 ELSE 400, {})
                          EXCEPT !.conn = procs[p].conn]
            /\ procs' = [procs EXCEPT ![p] = IdleProc]
            /\ UNCHANGED <<bots, conns, fresh, tg>>
       [] procs[p].op = "patch" ->
            /\ last' = Event("patch", procs[p].id, 200, {})
            /\ procs' = [procs EXCEPT ![p] = IdleProc]
            /\ UNCHANGED <<bots, conns, fresh, tg>>
       [] procs[p].op = "toggle" -> ToggleFinish(p)
  /\ UNCHANGED <<nextBot, botMessages, tbots>>

\* telegramService.createBot has returned to the route that awaits it
CreateReturn(p) ==
  /\ procs[p].pc = "createRet"
  /\ CASE procs[p].op = "post" ->
            /\ IF procs[p].ret
               THEN /\ last' = [Event("post", procs[p].id, 201, {}) EXCEPT !.conn = procs[p].conn]
                    /\ UNCHANGED bots
               ELSE /\ bots' = DeleteBot(bots, procs[p].bid)
                    /\ last' = [Event("post", procs[p].id, 400, {}) EXCEPT !.conn = procs[p].conn]
            /\ procs' = [procs EXCEPT ![p] = IdleProc]
            /\ UNCHANGED <<conns, fresh, tg>>
       [] procs[p].op = "patch" ->
            /\ last' = Event("patch", procs[p].id, 200, {})
            /\ procs' = [procs EXCEPT ![p] = IdleProc]
            /\ UNCHANGED <<bots, conns, fresh, tg>>
       [] procs[p].op = "toggle" -> ToggleFinish(p)
  /\ UNCHANGED <<nextBot, botMessages, tbots>>

\* (mutant) stopAllBots that returns after its first stopBot
StopAllNextOnlyFirst(p) ==
  /\ last' = Event("stopAll", 0, 0, {})
  /\ procs' = [procs EXCEPT ![p] = IdleProc]
  /\ UNCHANGED <<bots, conns, fresh, tg>>

\* stopAllBots after an awaited stopBot has returned: the next id of botIds, or the end
\* of the loop.  botIds is in the insertion order of the registry, which tbots does
\* not keep: any order is taken.
StopAllNext(p) ==
  IF procs[p].todo = {}
  THEN /\ last' = Event("stopAll", 0, 0, {})
       /\ procs' = [procs EXCEPT ![p] = IdleProc]
       /\ UNCHANGED <<bots, conns, fresh, tg>>
  ELSE \E botId \in procs[p].todo :
         LET r == EnterStopBot([procs[p] EXCEPT !.todo = procs[p].todo \ {botId}], botId)
         IN /\ procs' = [procs EXCEPT ![p] = r.proc]
            /\ last' = Event("stopAll", botId, 0, r.calls)
            /\ fresh' = 0
            /\ UNCHANGED <<bots, conns, tg>>

\* telegramService.stopBot has returned to its caller
StopReturn(p) ==
  /\ procs[p].pc = "stopRet"
  /\ CASE procs[p].op = "patch" ->
            LET r == EnterCreateBot(procs[p], bots, procs[p].bid, procs[p].tok)
            IN /\ bots' = r.bots
               /\ conns' = r.conns
               /\ procs' = [procs EXCEPT ![p] = r.proc]
               /\ last' = Event("patch", procs[p].id, 0, r.calls)
               /\ fresh' = 0
               /\ UNCHANGED tg
       [] procs[p].op = "delete" ->
            /\ bots' = DeleteBot(bots, procs[p].id)
            /\ last' = [Event("delete", procs[p].id,
                              IF procs[p].id \in DOMAIN bots THEN 204 ELSE 404, {})
                          EXCEPT !.conn = procs[p].conn]
            /\ procs' = [procs EXCEPT ![p] = IdleProc]
            /\ UNCHANGED <<conns, fresh, tg>>
       [] procs[p].op = "toggle" -> ToggleFinish(p)
       [] procs[p].op = "pollerr" ->
            /\ last' = [Event("pollerr", procs[p].bid, 0, {}) EXCEPT !.conn = procs[p].conn]
            /\ procs' = [procs EXCEPT ![p] = IdleProc]
            /\ UNCHANGED <<bots, conns, fresh, tg>>
       [] procs[p].op = "stopAll" -> StopAllNext(p)
  /\ UNCHANGED <<nextBot, botMessages, tbots>>

\* telegramService.stopAllBots(): botIds = Array.from(this.bots.keys()), then the
\* first stopBot of the loop
StopAllStart(p) ==
  /\ Idle(p) /\ NoUrgent
  /\ IF DOMAIN tbots = {}
     THEN /\ last' = StartEvent("stopAll", 0, 0, {})
          /\ UNCHANGED <<procs, fresh>>
     ELSE \E botId \in DOMAIN tbots :
            LET r == EnterStopBot([IdleProc EXCEPT !.op = "stopAll",
                                                   !.todo = DOMAIN tbots \ {botId}], botId)
            IN /\ procs' = [procs EXCEPT ![p] = r.proc]
               /\ last' = StartEvent("stopAll", botId, 0, r.calls)
               /\ fresh' = 0
  /\ UNCHANGED <<bots, nextBot, botMessages, tbots, conns>>

\* ------------------------------------------------------------- callbacks
\* error.message of a polling error: one that contains '404 Not Found', one that does not
NotFound404 == "ETELEGRAM: 404 Not Found"
OtherPollingError == "EFATAL: socket hang up"

\* (mutant) a polling_error listener that stops the bot on every error
PollingErrorAlwaysStops(p, c, notFound) ==
  /\ Idle(p) /\ NoUrgent
  /\ c \in 1..Len(conns) /\ conns[c].polling
  /\ LET r == EnterStopBot([IdleProc EXCEPT !.op = "pollerr", !.id = conns[c].botId],
                            conns[c].botId)
     IN /\ procs' = [procs EXCEPT ![p] = r.proc]
        /\ last' = [StartEvent("pollerr", conns[c].botId, 0, r.calls)
                      EXCEPT !.conn = c,
                             !.error = IF notFound THEN NotFound404 ELSE OtherPollingError]
  /\ fresh' = 0
  /\ UNCHANGED <<bots, nextBot, botMessages, tbots, conns>>

\* bot.on('polling_error'): only a message containing '404 Not Found' stops the bot
PollingError(p, c, notFound) ==
  /\ Idle(p) /\ NoUrgent
  /\ c \in 1..Len(conns) /\ conns[c].polling
  /\ IF notFound
     THEN /\ LET r == EnterStopBot([IdleProc EXCEPT !.op = "pollerr", !.id = conns[c].botId],
                                   conns[c].botId)
             IN /\ procs' = [procs EXCEPT ![p] = r.proc]
                /\ last' = [StartEvent("pollerr", conns[c].botId, 0, r.calls)
                              EXCEPT !.conn = c, !.error = NotFound404]
          /\ fresh' = 0
     ELSE /\ last' = [StartEvent("pollerr", conns[c].botId, 0, {})
                        EXCEPT !.conn = c, !.error = OtherPollingError]
          /\ UNCHANGED <<procs, fresh>>
  /\ UNCHANGED <<bots, nextBot, botMessages, tbots, conns>>

\* ------------------------------------------------------------- messages
\* What the completion API answers: an error, or a choice whose content may be empty
GenOutcomes ==
  { [ok |-> FALSE, content |-> Null],
    [ok |-> TRUE,  content |-> Null],
    [ok |-> TRUE,  content |-> "reply"] }

Fallback == "I'm sorry, I couldn't generate a response."
Apology  == "Sorry, I encountered an error processing your message."
\* the errors testMessage throws
BotNotFound == "Bot not found"
GenFailed   == "Failed to generate response from GPT"

\* OpenAIService.generateResponse: content || fallback
GenerateResponse(content) == IF Truthy(content) THEN content ELSE Fallback

\* MemStorage.createBotMessage: id (the position stands for the randomUUID),
\* timestamp: new Date(), response: insertMessage.response || null
CreateBotMessage(ms, botId, message, response) ==
  Append(ms, [id |-> Len(ms) + 1, botId |-> botId, message |-> message,
              response |-> IF Truthy(response) THEN response ELSE Null,
              timestamp |-> now])

\* records the handlers in flight may still create
ReservedLog == LET RECURSIVE Sum(_)
                   Sum(S) == IF S = {} THEN 0
                             ELSE LET q == CHOOSE x \in S : TRUE
                                  IN procs[q].willLog + Sum(S \ {q})
               IN Sum(Procs)
CanLog(n) == Len(botMessages) + ReservedLog + n <= MaxMsgs

Texts == {Null, "hi"}

\* (mutant) handleMessage without the lookup of the bot's configuration
MessageArrivesNoLookup(p, c, text) ==
  /\ Idle(p) /\ NoUrgent
  /\ c \in 1..Len(conns) /\ conns[c].polling
  /\ CanLog(2)
  /\ LET botId == conns[c].botId
     IN IF ~Truthy(text)
        THEN /\ last' = [StartEvent("message", botId, 0, {}) EXCEPT !.text = text]
             /\ UNCHANGED <<botMessages, procs>>
        ELSE /\ botMessages' = CreateBotMessage(botMessages, botId, text, Null)
             /\ procs' = [procs EXCEPT ![p] = [IdleProc EXCEPT !.op = "message", !.pc = "hGen",
                                                 !.id = botId, !.bid = botId, !.conn = c,
                                                 !.text = text, !.willLog = 1]]
             /\ last' = [StartEvent("message", botId, 0, {"generate"}) EXCEPT !.text = text]
  /\ UNCHANGED <<bots, nextBot, tbots, conns, fresh>>

\* bot.on('message') -> handleMessage(botId, bot, msg), up to the completion request
MessageArrives(p, c, text) ==
  /\ Idle(p) /\ NoUrgent
  /\ c \in 1..Len(conns) /\ conns[c].polling
  /\ CanLog(2)
  /\ LET botId == conns[c].botId
     IN IF ~Truthy(text) \/ botId \notin DOMAIN bots
        THEN /\ last' = [StartEvent("message", botId, 0, {}) EXCEPT !.text = text]
             /\ UNCHANGED <<botMessages, procs>>
        ELSE /\ botMessages' = CreateBotMessage(botMessages, botId, text, Null)
             /\ procs' = [procs EXCEPT ![p] = [IdleProc EXCEPT !.op = "message", !.pc = "hGen",
                                                 !.id = botId, !.bid = botId, !.conn = c,
                                                 !.text = text, !.willLog = 1]]
             /\ last' = [StartEvent("message", botId, 0, {"generate"}) EXCEPT !.text = text]
  /\ UNCHANGED <<bots, nextBot, tbots, conns, fresh>>

\* await openaiService.generateResponse(...) resumes in handleMessage
HGenResume(p, out) ==
  /\ NoUrgent
  /\ procs[p].pc = "hGen"
  /\ IF out.ok
     THEN /\ procs' = [procs EXCEPT ![p].pc = "hSend", ![p].reply = GenerateResponse(out.content)]
          /\ last' = [Event("message", procs[p].id, 0, {"send"})
                        EXCEPT !.text = procs[p].text, !.reply = GenerateResponse(out.content)]
     ELSE /\ procs' = [procs EXCEPT ![p].pc = "hApology", ![p].willLog = 0]
          /\ last' = [Event("message", procs[p].id, 0, {"send"})
                        EXCEPT !.text = procs[p].text, !.reply = Apology]
  /\ UNCHANGED <<bots, nextBot, botMessages, tbots, conns, fresh, tg>>

\* (mutant) handleMessage that does not log the reply it sent
HSendResumeNoLog(p, ok) ==
  /\ NoUrgent
  /\ procs[p].pc = "hSend"
  /\ IF ok
     THEN /\ procs' = [procs EXCEPT ![p] = IdleProc]
          /\ last' = [Event("message", procs[p].id, 0, {})
                        EXCEPT !.text = procs[p].text, !.reply = procs[p].reply]
     ELSE /\ procs' = [procs EXCEPT ![p].pc = "hApology", ![p].willLog = 0]
          /\ last' = [Event("message", procs[p].id, 0, {"send"})
                        EXCEPT !.text = procs[p].text, !.reply = Apology]
  /\ UNCHANGED <<bots, nextBot, botMessages, tbots, conns, fresh, tg>>

\* await bot.sendMessage(chatId, response) resumes
HSendResume(p, ok) ==
  /\ NoUrgent
  /\ procs[p].pc = "hSend"
  /\ IF ok
     THEN /\ botMessages' = CreateBotMessage(botMessages, procs[p].bid, procs[p].text, procs[p].reply)
          /\ procs' = [procs EXCEPT ![p] = IdleProc]
          /\ last' = [Event("message", procs[p].id, 0, {})
                        EXCEPT !.text = procs[p].text, !.reply = procs[p].reply]
     ELSE /\ procs' = [procs EXCEPT ![p].pc = "hApology", ![p].willLog = 0]
          /\ last' = [Event("message", procs[p].id, 0, {"send"})
                        EXCEPT !.text = procs[p].text, !.reply = Apology]
          /\ UNCHANGED botMessages
  /\ UNCHANGED <<bots, nextBot, tbots, conns, fresh, tg>>

\* await bot.sendMessage(chatId, 'Sorry, ...') in the catch block resumes; if it
\* throws, the rejection leaves the handler (status 1)
HApologyResume(p, ok) ==
  /\ NoUrgent
  /\ procs[p].pc = "hApology"
  /\ procs' = [procs EXCEPT ![p] = IdleProc]
  /\ last' = [Event("message", procs[p].id, IF ok THEN 0 ELSE 1, {}) EXCEPT !.text = procs[p].text]
  /\ UNCHANGED <<bots, nextBot, botMessages, tbots, conns, fresh, tg>>

\* POST /api/bots/:id/test -> testMessage(botId, message), up to the completion request
TestStart(p, id, text) ==
  /\ Idle(p) /\ NoUrgent
  /\ CanLog(1)
  /\ IF ~Truthy(text)
     THEN /\ last' = [StartEvent("test", id, 400, {}) EXCEPT !.text = text]
          /\ UNCHANGED procs
     ELSE IF id \notin DOMAIN bots
     THEN /\ last' = [StartEvent("test", id, 500, {}) EXCEPT !.text = text, !.error = BotNotFound]
          /\ UNCHANGED procs
     ELSE /\ procs' = [procs EXCEPT ![p] = [IdleProc EXCEPT !.op = "test", !.pc = "tGen",
                                              !.id = id, !.bid = id, !.text = text,
                                              !.willLog = 1]]
          /\ last' = [StartEvent("test", id, 0, {"generate"}) EXCEPT !.text = text]
  /\ UNCHANGED <<bots, nextBot, botMessages, tbots, conns, fresh>>

\* (mutant) testMessage that logs the inbound text without the reply
TGenResumeNoReply(p, out) ==
  /\ NoUrgent
  /\ procs[p].pc = "tGen"
  /\ IF out.ok
     THEN /\ botMessages' = CreateBotMessage(botMessages, procs[p].bid, procs[p].text, Null)
          /\ last' = [Event("test", procs[p].id, 200, {})
                        EXCEPT !.text = procs[p].text, !.reply = GenerateResponse(out.content)]
     ELSE /\ last' = [Event("test", procs[p].id, 500, {})
                        EXCEPT !.text = procs[p].text, !.error = GenFailed]
          /\ UNCHANGED botMessages
  /\ procs' = [procs EXCEPT ![p] = IdleProc]
  /\ UNCHANGED <<bots, nextBot, tbots, conns, fresh, tg>>

\* (mutant) testMessage that logs the inbound text before it rethrows
TGenResumeLogsFailure(p, out) ==
  /\ NoUrgent
  /\ procs[p].pc = "tGen"
  /\ IF out.ok
     THEN /\ botMessages' = CreateBotMessage(botMessages, procs[p].bid, procs[p].text,
                                             GenerateResponse(out.content))
          /\ last' = [Event("test", procs[p].id, 200, {})
                        EXCEPT !.text = procs[p].text, !.reply = GenerateResponse(out.content)]
     ELSE /\ botMessages' = CreateBotMessage(botMessages, procs[p].bid, procs[p].text, Null)
          /\ last' = [Event("test", procs[p].id, 500, {})
                        EXCEPT !.text = procs[p].text, !.error = GenFailed]
  /\ procs' = [procs EXCEPT ![p] = IdleProc]
  /\ UNCHANGED <<bots, nextBot, tbots, conns, fresh, tg>>

\* await openaiService.generateResponse(...) resumes in testMessage
TGenResume(p, out) ==
  /\ NoUrgent
  /\ procs[p].pc = "tGen"
  /\ IF out.ok
     THEN /\ botMessages' = CreateBotMessage(botMessages, procs[p].bid, procs[p].text,
                                             GenerateResponse(out.content))
          /\ last' = [Event("test", procs[p].id, 200, {})
                        EXCEPT !.text = procs[p].text, !.reply = GenerateResponse(out.content)]
     ELSE /\ last' = [Event("test", procs[p].id, 500, {})
                        EXCEPT !.text = procs[p].text, !.error = GenFailed]
          /\ UNCHANGED botMessages
  /\ procs' = [procs EXCEPT ![p] = IdleProc]
  /\ UNCHANGED <<bots, nextBot, tbots, conns, fresh, tg>>

\* ------------------------------------------------- MemStorage, called directly
Min(a, b) == IF a <= b THEN a ELSE b

\* one step of Array.prototype.sort with (a, b) => b.timestamp - a.timestamp over a
\* sorted prefix: the sort is stable, so x goes after every row that is not older
InsertNewestFirst(sorted, x) ==
  LET k == Cardinality({i \in 1..Len(sorted) : sorted[i].timestamp >= x.timestamp})
  IN SubSeq(sorted, 1, k) \o <<x>> \o SubSeq(sorted, k + 1, Len(sorted))

RECURSIVE SortNewestFirst(_)
SortNewestFirst(rows) ==
  IF rows = <<>> THEN <<>>
  ELSE InsertNewestFirst(SortNewestFirst(SubSeq(rows, 1, Len(rows) - 1)), rows[Len(rows)])

\* MemStorage.getBotMessages: values in insertion order, filter, sort, slice(0, limit)
GetBotMessages(ms, botId, limit) ==
  LET rows == SortNewestFirst(SelectSeq(ms, LAMBDA m : m.botId = botId))
  IN SubSeq(rows, 1, Min(limit, Len(rows)))

\* storage.createBotMessage called by some handler
LogMessage ==
  /\ Len(botMessages) < MaxLog
  /\ \E botId \in BotIds, response \in {Null, "reply"} :
       botMessages' = CreateBotMessage(botMessages, botId, "hi", response)
  /\ result' = NoResult
  /\ UNCHANGED <<bots, nextBot, now>>
  /\ UNCHANGED service /\ UNCHANGED github /\ UNCHANGED projectStore

\* a millisecond passes
Tick ==
  /\ now < MaxNow
  /\ now' = now + 1
  /\ result' = NoResult
  /\ UNCHANGED <<bots, nextBot, botMessages>>
  /\ UNCHANGED service /\ UNCHANGED github /\ UNCHANGED projectStore

\* storage.getBotMessages(botId, limit)
GetMessages ==
  /\ \E botId \in BotIds, limit \in 1..MaxLimit :
       result' = [op |-> "getBotMessages", botId |-> botId, limit |-> limit,
                  rows |-> GetBotMessages(botMessages, botId, limit)]
  /\ UNCHANGED <<bots, nextBot, botMessages, now>>
  /\ UNCHANGED service /\ UNCHANGED github /\ UNCHANGED projectStore

\* storage.getBotMessages(botId): the limit parameter takes its default
GetMessagesDefault ==
  /\ \E botId \in BotIds :
       result' = [op |-> "getBotMessages", botId |-> botId, limit |-> DefaultLimit,
                  rows |-> GetBotMessages(botMessages, botId, DefaultLimit)]
  /\ UNCHANGED <<bots, nextBot, botMessages, now>>
  /\ UNCHANGED service /\ UNCHANGED github /\ UNCHANGED projectStore

Usernames == {"a", "b"}
\* the bot fields a caller hands to storage.createBot (insertBotSchema: username and
\* telegramToken are required strings, isActive is optional)
InsertBots ==
  [username : Usernames, telegramToken : Tokens, isActive : BOOLEAN]
    \cup [username : Usernames, telegramToken : Tokens]

\* storage.createBot(insertBot, userId)
StoreCreateBot ==
  /\ nextBot < MaxBots
  /\ \E insertBot \in InsertBots :
       /\ bots' = MapSet(bots, nextBot + 1, NewBot(nextBot + 1, insertBot))
       /\ result' = [op |-> "createBot", id |-> nextBot + 1]
  /\ nextBot' = nextBot + 1
  /\ UNCHANGED <<botMessages, now>>
  /\ UNCHANGED service /\ UNCHANGED github /\ UNCHANGED projectStore

\* storage.updateBot(id, updates)
StoreUpdateBot ==
  /\ \E id \in BotIds,
         updates \in {[username |-> u] : u \in Usernames} \cup {[isActive |-> b] : b \in BOOLEAN} :
       /\ bots' = UpdateBot(bots, id, updates)
       /\ result' = [op |-> "updateBot", id |-> IF id \in DOMAIN bots THEN id ELSE 0]
  /\ UNCHANGED <<nextBot, botMessages, now>>
  /\ UNCHANGED service /\ UNCHANGED github /\ UNCHANGED projectStore

\* the other records of the store in one map
botStore == <<bots, nextBot, botMessages, now>>
ProjectIds == 1..MaxProjects
FileIds == 1..MaxStored

\* storage.createProject(insertProject, userId)
StoreCreateProject ==
  /\ nextProject < MaxProjects
  /\ projects' = MapSet(projects, nextProject + 1, [id |-> nextProject + 1])
  /\ nextProject' = nextProject + 1
  /\ result' = [op |-> "createProject", id |-> nextProject + 1]
  /\ UNCHANGED <<files, nextFile>>
  /\ UNCHANGED botStore /\ UNCHANGED service /\ UNCHANGED github

\* storage.updateProject(id, updates): PATCH /api/projects/:id passes req.body as
\* updates; a body may name the id field (an id the store has handed out) or not
StoreUpdateProject ==
  /\ \E id \in ProjectIds, updates \in {<<>>} \cup {[id |-> k] : k \in 1..nextProject} :
       /\ projects' = IF id \in DOMAIN projects
                      THEN MapSet(projects, id, Merge(projects[id], updates))
                      ELSE projects
       /\ result' = [op |-> "updateProject", id |-> id]
  /\ UNCHANGED <<files, nextProject, nextFile>>
  /\ UNCHANGED botStore /\ UNCHANGED service /\ UNCHANGED github

\* MemStorage.deleteProject: every file whose projectId is id is deleted by the id
\* its record carries, then the project
StoreDeleteProject ==
  /\ \E id \in ProjectIds :
       LET ofProject == {k \in DOMAIN files : files[k].projectId = id}
           doomed == {files[k].id : k \in ofProject}
       IN /\ files' = [k \in DOMAIN files \ doomed |-> files[k]]
          /\ projects' = MapDelete(projects, id)
          /\ result' = [op |-> "deleteProject", id |-> id, before |-> files]
  /\ UNCHANGED <<nextProject, nextFile>>
  /\ UNCHANGED botStore /\ UNCHANGED service /\ UNCHANGED github

\* storage.createFile(insertFile): insertFileSchema requires projectId to be a string
StoreCreateFile ==
  /\ nextFile < MaxStored
  /\ \E projectId \in ProjectIds :
       files' = MapSet(files, nextFile + 1, [id |-> nextFile + 1, projectId |-> projectId])
  /\ nextFile' = nextFile + 1
  /\ result' = [op |-> "createFile", id |-> nextFile + 1]
  /\ UNCHANGED <<projects, nextProject>>
  /\ UNCHANGED botStore /\ UNCHANGED service /\ UNCHANGED github

\* storage.updateFile(id, updates): PATCH /api/files/:id passes req.body as updates
StoreUpdateFile ==
  /\ \E id \in FileIds,
         updates \in {<<>>} \cup {[id |-> k] : k \in 1..nextFile}
                           \cup {[projectId |-> k] : k \in ProjectIds} :
       /\ files' = IF id \in DOMAIN files
                   THEN MapSet(files, id, Merge(files[id], updates))
                   ELSE files
       /\ result' = [op |-> "updateFile", id |-> id]
  /\ UNCHANGED <<projects, nextProject, nextFile>>
  /\ UNCHANGED botStore /\ UNCHANGED service /\ UNCHANGED github

\* storage.deleteFile(id)
StoreDeleteFile ==
  /\ \E id \in FileIds :
       /\ files' = MapDelete(files, id)
       /\ result' = [op |-> "deleteFile", id |-> id]
  /\ UNCHANGED <<projects, nextProject, nextFile>>
  /\ UNCHANGED botStore /\ UNCHANGED service /\ UNCHANGED github

\* ---------------------------------------------------------- OpenAIService
\* JavaScript values as the calls below pass them: a string, an object, undefined
Undefined == [type |-> "undefined"]
JsString(str) == [type |-> "string", value |-> str]
JsObject(fields) == [type |-> "object", value |-> fields]
\* v.f: undefined unless v is an object with that field
Member(v, f) == IF v.type = "object" /\ f \in DOMAIN v.value THEN v.value[f] ELSE Undefined
\* the i-th parameter of a call with the arguments args
Param(args, i) == IF i <= Len(args) THEN args[i] ELSE Undefined

DefaultPersonality == "You are a helpful assistant."
\* stands for the Russian default prompt of POST /api/ai/chat
DefaultSystemPrompt == "AI assistant"
\* s || d on a string-or-null value
OrElse(s, d) == IF Truthy(s) THEN s ELSE d

\* parseFloat on the decimal strings used here, in tenths
ParseFloat(s) == CASE s = "0.2" -> 2 [] s = "0.7" -> 7 [] s = "1.5" -> 15
\* parseInt on the decimal strings used here
ParseInt(s) == CASE s = "150" -> 150 [] s = "300" -> 300 [] s = "500" -> 500

\* the settings a stored bot may carry
BotConfigs ==
  [personality : {Null, "pirate"}, gptModel : {Null, "gpt-5", "gpt-4o"},
   temperature : {Null, "0.2", "0.7"}, maxTokens : {Null, "150", "300"}]

\* the arguments handleMessage and testMessage pass to generateResponse
ConfigArgs(botConfig, message) ==
  << JsString(message),
     JsString(OrElse(botConfig.personality, DefaultPersonality)),
     JsObject([model |-> JsString(OrElse(botConfig.gptModel, "gpt-5")),
               temperature |-> ParseFloat(OrElse(botConfig.temperature, "0.7")),
               maxTokens |-> ParseInt(OrElse(botConfig.maxTokens, "150"))]) >>

\* the argument POST /api/ai/chat passes: history || [] is an array
ChatArgs(message, systemPrompt) ==
  << JsObject([message |-> JsString(message),
               systemPrompt |-> JsString(OrElse(systemPrompt, DefaultSystemPrompt)),
               history |-> JsObject(<<>>)]) >>

\* generateResponse(message, personality, config): the requests it issues; none
\* when reading config.model throws
GenerateResponse3(args) ==
  LET message == Param(args, 1)
      personality == Param(args, 2)
      config == Param(args, 3)
  IN IF config = Undefined THEN <<>>
     ELSE << [model |-> Member(config, "model"), system |-> personality, user |-> message,
              temperature |-> Member(config, "temperature"),
              max_tokens |-> Member(config, "maxTokens")] >>

\* generateResponse(chatParams): the requests it issues; none when spreading
\* chatParams.history throws
GenerateResponse1(args) ==
  LET chatParams == Param(args, 1)
  IN IF chatParams = Undefined \/ Member(chatParams, "history").type # "object" THEN <<>>
     ELSE << [model |-> JsString("gpt-4o"), system |-> Member(chatParams, "systemPrompt"),
              user |-> Member(chatParams, "message"),
              temperature |-> 7, max_tokens |-> 500] >>

\* the class declares generateResponse twice, which the type checker rejects; when
\* the class is evaluated as JavaScript the later declaration (chatParams) replaces
\* the earlier one (config).  Both are kept here, as in GenOutcomes.
Declarations == {"config", "chatParams"}
Generate(decl, args) ==
  IF decl = "chatParams" THEN GenerateResponse1(args) ELSE GenerateResponse3(args)

\* handleMessage up to the completion request, for a bot with the given settings
InboundGenerate ==
  \E botConfig \in BotConfigs, message \in {"hi", "yo"}, decl \in Declarations :
    /\ result' = [op |-> "handleMessage", botConfig |-> botConfig, message |-> message,
                  requests |-> Generate(decl, ConfigArgs(botConfig, message))]
    /\ UNCHANGED botStore /\ UNCHANGED service /\ UNCHANGED github /\ UNCHANGED projectStore

\* testMessage up to the completion request
TestGenerate ==
  \E botConfig \in BotConfigs, message \in {"hi", "yo"}, decl \in Declarations :
    /\ result' = [op |-> "testMessage", botConfig |-> botConfig, message |-> message,
                  requests |-> Generate(decl, ConfigArgs(botConfig, message))]
    /\ UNCHANGED botStore /\ UNCHANGED service /\ UNCHANGED github /\ UNCHANGED projectStore

\* POST /api/ai/chat with a message
ChatGenerate ==
  \E message \in {"hi", "yo"}, systemPrompt \in {Null, "pirate"}, decl \in Declarations :
    /\ result' = [op |-> "chat", message |-> message, systemPrompt |-> systemPrompt,
                  requests |-> Generate(decl, ChatArgs(message, systemPrompt))]
    /\ UNCHANGED botStore /\ UNCHANGED service /\ UNCHANGED github /\ UNCHANGED projectStore

\* ---------------------------------------------------------- GitHubService
Paths == {"a", "b", "c"}
\* the file lists a sync is given: storage.getFilesByProjectId(...).map(path, content)
FileLists ==
  UNION {{f \in [1..n -> Paths] : \A i, j \in 1..n : i # j => f[i] # f[j]} : n \in 0..MaxFiles}

\* syncProjectToGitHub(repoFullName, files, token) up to its first createOrUpdateFile;
\* with no file the loop body never runs and the call resolves
SyncStart(projectFiles) ==
  /\ sync.status # "running"
  /\ sync.n < MaxSyncs
  /\ sync' = [status |-> IF projectFiles = <<>> THEN "ok" ELSE "running",
              files |-> projectFiles, i |-> 1, base |-> Len(remote), n |-> sync.n + 1]
  /\ UNCHANGED <<bots, nextBot, botMessages, now, result, remote>>
  /\ UNCHANGED service /\ UNCHANGED projectStore

\* (mutant) a sync that undoes its writes when one fails
WriteResumeRollsBack(ok, applied) ==
  /\ sync.status = "running"
  /\ IF ok
     THEN /\ remote' = Append(remote, sync.files[sync.i])
          /\ sync' = IF sync.i = Len(sync.files)
                     THEN [sync EXCEPT !.status = "ok"]
                     ELSE [sync EXCEPT !.i = @ + 1]
     ELSE /\ remote' = SubSeq(remote, 1, sync.base)
          /\ sync' = [sync EXCEPT !.status = "failed"]
  /\ UNCHANGED <<bots, nextBot, botMessages, now, result>>
  /\ UNCHANGED service /\ UNCHANGED projectStore

\* await this.createOrUpdateFile(...) resumes.  A PUT that is answered with an error
\* wrote nothing; one whose answer is lost (fetch or response.json() throws) may have.
WriteResume(ok, applied) ==
  /\ sync.status = "running"
  /\ IF ok
     THEN /\ remote' = Append(remote, sync.files[sync.i])
          /\ sync' = IF sync.i = Len(sync.files)
                     THEN [sync EXCEPT !.status = "ok"]
                     ELSE [sync EXCEPT !.i = @ + 1]
     ELSE /\ remote' = IF applied THEN Append(remote, sync.files[sync.i]) ELSE remote
          /\ sync' = [sync EXCEPT !.status = "failed"]
  /\ UNCHANGED <<bots, nextBot, botMessages, now, result>>
  /\ UNCHANGED service /\ UNCHANGED projectStore

\* --------------------------------------------------------- specifications
\* seq: a request or callback starts only when none is in flight
\* (the request takes the first free slot)
MayStart(seq, p) ==
  /\ seq => AllIdle
  /\ \A q \in Procs : q < p => ~Idle(q)

\* the run of toggles a toggle request on id starts or continues
TgStart(id) ==
  IF id \notin DOMAIN bots THEN NoToggles
  ELSE IF tg.id = id /\ tg.n = 1 THEN tg
  ELSE [id |-> id, n |-> 0, ok |-> TRUE, flag0 |-> bots[id].isActive, reg0 |-> id \in DOMAIN tbots]

Post(seq) ==
  \E p \in Procs, t \in Tokens, a \in BOOLEAN :
    MayStart(seq, p) /\ PostStart(p, t, a) /\ tg' = NoToggles /\ UNCHANGED others
Patch(seq) ==
  \E p \in Procs, id \in BotIds, b \in PatchBodies :
    MayStart(seq, p) /\ PatchStart(p, id, b) /\ tg' = NoToggles /\ UNCHANGED others
Delete(seq) ==
  \E p \in Procs, id \in BotIds :
    MayStart(seq, p) /\ DeleteStart(p, id) /\ tg' = NoToggles /\ UNCHANGED others
Toggle(seq) ==
  \E p \in Procs, id \in BotIds :
    MayStart(seq, p) /\ ToggleStart(p, id) /\ tg' = (IF seq THEN TgStart(id) ELSE NoToggles)
    /\ UNCHANGED others
PollErr(seq) ==
  \E p \in Procs, c \in 1..MaxConns, nf \in BOOLEAN :
    MayStart(seq, p) /\ PollingError(p, c, nf) /\ tg' = NoToggles /\ UNCHANGED others
Test(seq) ==
  \E p \in Procs, id \in BotIds, t \in Texts :
    MayStart(seq, p) /\ TestStart(p, id, t) /\ tg' = NoToggles /\ UNCHANGED others
Message(seq) ==
  \E p \in Procs, c \in 1..MaxConns, t \in Texts :
    MayStart(seq, p) /\ MessageArrives(p, c, t) /\ tg' = NoToggles /\ UNCHANGED others

GetMe         == \E p \in Procs, ok \in BOOLEAN : GetMeResume(p, ok) /\ UNCHANGED others
StartPolling  == \E p \in Procs, ok \in BOOLEAN : StartPollingResume(p, ok) /\ UNCHANGED others
StopPolling   == \E p \in Procs, ok \in BOOLEAN : StopPollingResume(p, ok) /\ UNCHANGED others
CreateRet     == \E p \in Procs : CreateReturn(p) /\ UNCHANGED others
StopRet       == \E p \in Procs : StopReturn(p) /\ UNCHANGED others
HGen          == \E p \in Procs, out \in GenOutcomes : HGenResume(p, out) /\ UNCHANGED others
HSend         == \E p \in Procs, ok \in BOOLEAN : HSendResume(p, ok) /\ UNCHANGED others
HApology      == \E p \in Procs, ok \in BOOLEAN : HApologyResume(p, ok) /\ UNCHANGED others
TGen          == \E p \in Procs, out \in GenOutcomes : TGenResume(p, out) /\ UNCHANGED others

\* Lifecycle requests and polling errors, not overlapping
Next ==
  \/ Post(TRUE) \/ Patch(TRUE) \/ Delete(TRUE) \/ Toggle(TRUE) \/ PollErr(TRUE)
  \/ GetMe \/ StartPolling \/ StopPolling \/ CreateRet \/ StopRet

Spec == Init /\ [][Next]_vars

\* The same, interleaving at their network calls
NextConc ==
  \/ Post(FALSE) \/ Patch(FALSE) \/ Delete(FALSE) \/ Toggle(FALSE) \/ PollErr(FALSE)
  \/ GetMe \/ StartPolling \/ StopPolling \/ CreateRet \/ StopRet

SpecConc == Init /\ [][NextConc]_vars

\* PATCH /api/bots/:id with a body that names telegramToken only
PatchToken ==
  \E p \in Procs, id \in BotIds, t \in Tokens :
    MayStart(FALSE, p) /\ PatchStart(p, id, [telegramToken |-> t]) /\ tg' = NoToggles
    /\ UNCHANGED others

\* Creation, toggles and token updates, interleaving at their network calls
NextRace ==
  \/ Post(FALSE) \/ Toggle(FALSE) \/ PatchToken
  \/ GetMe \/ StartPolling \/ StopPolling \/ CreateRet \/ StopRet

SpecRace == Init /\ [][NextRace]_vars

\* an activation (createBot) is in flight
Activating == \E q \in Procs : procs[q].op \in {"post", "patch", "toggle"}

\* stopAllBots is called while no activation is in flight; result keeps the ids the
\* registry held at the call
StopAll ==
  \E p \in Procs :
    /\ ~Activating
    /\ MayStart(FALSE, p) /\ StopAllStart(p) /\ tg' = NoToggles
    /\ result' = [op |-> "stopAll", ids |-> DOMAIN tbots]
    /\ UNCHANGED <<now, sync, remote>> /\ UNCHANGED projectStore

\* one request's or callback's awaited stopPolling resumes
StopPollingOf(p) == \E ok \in BOOLEAN : StopPollingResume(p, ok) /\ UNCHANGED others

\* Shutdown: bots are created one at a time; deletions, polling errors and
\* stopAllBots may overlap each other
NextShutdown ==
  \/ Post(TRUE) \/ Delete(FALSE) \/ PollErr(FALSE) \/ StopAll
  \/ GetMe \/ StartPolling \/ StopPolling \/ CreateRet \/ StopRet

SpecShutdown == Init /\ [][NextShutdown]_vars

\* every awaited stopPolling resumes, and a call that has returned is resumed at once
SpecShutdownFair ==
  /\ SpecShutdown
  /\ \A p \in Procs : SF_vars(StopPollingOf(p))
  /\ WF_vars(StopRet) /\ WF_vars(CreateRet)

\* Inbound messages, polling errors and test requests on top of bot creation and
\* deletion.  A DELETE may arrive while another request or handler is suspended.
NextMsg ==
  \/ Post(TRUE) \/ Delete(FALSE) \/ PollErr(TRUE) \/ Test(TRUE) \/ Message(TRUE)
  \/ GetMe \/ StartPolling \/ StopPolling \/ CreateRet \/ StopRet
  \/ HGen \/ HSend \/ HApology \/ TGen

SpecMsg == Init /\ [][NextMsg]_vars

\* Inbound messages of the bots created; a message may arrive while the handler of
\* an earlier one is suspended
NextHandlers ==
  \/ Post(TRUE) \/ Message(FALSE)
  \/ GetMe \/ StartPolling \/ CreateRet
  \/ HGen \/ HSend \/ HApology

SpecHandlers == Init /\ [][NextHandlers]_vars

\* The message log alone: records are created as time passes, and queried
NextLog == LogMessage \/ Tick \/ GetMessages \/ GetMessagesDefault

SpecLog == Init /\ [][NextLog]_vars

\* The bot records of the store alone
NextBots == StoreCreateBot \/ StoreUpdateBot

SpecBots == Init /\ [][NextBots]_vars

\* The project and file records of the store alone
NextFiles ==
  \/ StoreCreateProject \/ StoreUpdateProject \/ StoreDeleteProject
  \/ StoreCreateFile \/ StoreUpdateFile \/ StoreDeleteFile

SpecFiles == Init /\ [][NextFiles]_vars

\* The completion requests built for inbound, test and chat messages
NextGen == InboundGenerate \/ TestGenerate \/ ChatGenerate

SpecGen == Init /\ [][NextGen]_vars

\* Project syncs to the source-hosting service, one after the other
Sync == \E projectFiles \in FileLists : SyncStart(projectFiles)
Write == \E ok, applied \in BOOLEAN : WriteResume(ok, applied)
NextSync == Sync \/ Write

SpecSync == Init /\ [][NextSync]_vars

\* ----------------------------------------------------------------- claims
StoredInactive(id) == id \in DOMAIN bots => ~bots[id].isActive
Registered(id) == id \in DOMAIN tbots

\* C1: a stopBot on an id that follows a createBot that returned true for that id,
\* with no other createBot/stopBot call in between, returns true and leaves the
\* stored isActive flag false and no registry entry for the id.
C1_StopAfterCreate ==
  \A p \in Procs :
    (procs[p].pc = "stopRet" /\ procs[p].follow) =>
      /\ procs[p].ret
      /\ ~Registered(procs[p].bid)
      /\ StoredInactive(procs[p].bid)

C1_Witness ==
  \E p \in Procs :
    /\ procs[p].pc = "stopRet" /\ procs[p].follow /\ procs[p].ret
    /\ procs[p].bid \in DOMAIN bots

StructurallyBad(t) == t.len = 0 \/ ~t.prefix \/ t.len < 20

\* C2: createBot called with a token that is empty, does not start with the prefix or
\* is shorter than 20 characters constructs no connection object and issues no
\* platform call, returns false and leaves the stored isActive flag false.
C2_BadTokenNoNetwork ==
  /\ \A c \in 1..Len(conns) : ~StructurallyBad(conns[c].token)
  /\ \A p \in Procs :
       (procs[p].pc \in {"getMe", "startPolling", "createRet"} /\ StructurallyBad(procs[p].tok)) =>
         /\ procs[p].pc = "createRet"
         /\ ~procs[p].ret
         /\ procs[p].conn = 0
         /\ last.calls = {}
         /\ StoredInactive(procs[p].bid)

C2_Witness ==
  \E p \in Procs :
    /\ procs[p].pc = "createRet" /\ ~procs[p].ret
    /\ procs[p].tok = [len |-> 19, prefix |-> TRUE]
    /\ procs[p].bid \in DOMAIN bots
    /\ Len(conns) > 0

\* C6: when createBot fails after the structural check (getMe or startPolling threw)
\* it returns false, the stored isActive flag is false, the connection object it
\* created is not in the registry and is not polling.
C6_FailedCreateLeavesNothing ==
  \A p \in Procs :
    procs[p].pc = "createRet" =>
      /\ (last.op = "createBot" /\ last.status = 1) => ~procs[p].ret
      /\ (~procs[p].ret /\ procs[p].conn # 0) =>
           /\ StoredInactive(procs[p].bid)
           /\ ~conns[procs[p].conn].polling
           /\ \A k \in DOMAIN tbots : tbots[k] # procs[p].conn

C6_Witness ==
  \E p \in Procs :
    /\ procs[p].pc = "createRet" /\ ~procs[p].ret /\ procs[p].conn # 0
    /\ last.status = 1
    /\ procs[p].bid \in DOMAIN bots
    /\ Registered(procs[p].bid)

\* C3: whenever no request or callback is in flight, every stored bot has
\* isActive = true exactly when the registry holds a connection for its id.
C3_ActiveIffRegistered ==
  AllIdle => \A id \in DOMAIN bots : bots[id].isActive <=> Registered(id)

\* C4: at most one connection opened for a bot id is polling, and every polling
\* connection is the one the registry holds under its bot id.
C4_OnePollingConnection ==
  /\ \A c, d \in 1..Len(conns) :
       (conns[c].polling /\ conns[d].polling /\ conns[c].botId = conns[d].botId) => c = d
  /\ \A c \in 1..Len(conns) :
       conns[c].polling => (Registered(conns[c].botId) /\ tbots[conns[c].botId] = c)

StopBotCalled(p) == procs[p].pc = "idle" /\ procs'[p].pc \in {"stopPolling", "stopRet"}
StopBotResumed(p) == procs[p].pc = "stopPolling" /\ procs'[p].pc = "stopRet"
\* the step before was the return of a stopBot call on id
JustStopped(id) == ~last.start /\ last.op \in {"pollerr", "delete"} /\ last.id = id

\* stopBot returns false at once and changes neither the registry, nor a connection,
\* nor a stored record (in PATCH the only change is the route's own update of the body)
StopBotNoEffect(p) ==
  /\ procs'[p].pc = "stopRet" /\ ~procs'[p].ret
  /\ tbots' = tbots /\ conns' = conns
  /\ IF procs'[p].op = "patch"
     THEN \E b \in PatchBodies : bots' = UpdateBot(bots, procs'[p].id, b)
     ELSE bots' = bots

\* C7: stopBot called for an id with no registry entry returns false and changes
\* neither the registry nor any stored record; a stopBot that had an entry leaves
\* none, and a stopBot that comes right after another on the same id changes nothing.
C7_StopBotIdempotent ==
  [][\A p \in Procs :
       /\ (StopBotCalled(p) /\ ~Registered(procs'[p].bid)) => StopBotNoEffect(p)
       /\ StopBotResumed(p) => procs'[p].bid \notin DOMAIN tbots'
       /\ (StopBotCalled(p) /\ JustStopped(procs'[p].bid)) => StopBotNoEffect(p)
    ]_vars

C7_Witness ==
  \E p \in Procs :
    /\ procs[p].pc = "stopRet" /\ ~procs[p].ret /\ procs[p].conn = 0
    /\ procs[p].bid \in DOMAIN bots
    /\ \E c \in 1..Len(conns) : conns[c].botId = procs[p].bid /\ ~conns[c].polling

\* C8: when DELETE /api/bots/:id answers, the status is 204 or 404, the store holds
\* no record for the id, the registry holds no connection for it, and no connection
\* opened for it is polling.
C8_DeleteTearsDown ==
  (last.op = "delete" /\ ~last.start) =>
    /\ last.status \in {204, 404}
    /\ last.id \notin DOMAIN bots
    /\ ~Registered(last.id)
    /\ \A c \in 1..Len(conns) : conns[c].botId = last.id => ~conns[c].polling

\* C9: an inbound message on a connection whose bot id has no stored record creates
\* no BotMessage, requests no completion, sends nothing and leaves no handler running.
C9_UnknownBotNoEffect ==
  [][(last'.op = "message" /\ last'.start /\ last'.id \notin DOMAIN bots) =>
       /\ botMessages' = botMessages
       /\ last'.calls = {}
       /\ procs' = procs
    ]_vars

C9_Witness ==
  /\ last.op = "message" /\ last.start /\ last.text = "hi"
  /\ last.id \notin DOMAIN bots
  /\ last.calls = {}

\* C10: a test request that answers 200 has appended exactly one BotMessage, for that
\* bot, with the request's text and the reply it answers with, and has changed neither
\* registry, connections nor bot records; entering the request created no record.
C10_TestLogsOneRecord ==
  [][/\ (last'.op = "test" /\ last'.status = 200) =>
          /\ Truthy(last'.reply)
          /\ botMessages' = Append(botMessages, [id |-> Len(botMessages) + 1, botId |-> last'.id,
                                                  message |-> last'.text, response |-> last'.reply,
                                                  timestamp |-> now])
          /\ tbots' = tbots /\ conns' = conns /\ bots' = bots
     /\ (last'.op = "test" /\ last'.start) =>
          /\ botMessages' = botMessages
          /\ tbots' = tbots /\ conns' = conns /\ bots' = bots
    ]_vars

C10_Witness ==
  /\ last.op = "test" /\ last.status = 200
  /\ last.id \in DOMAIN bots /\ ~Registered(last.id)
  /\ botMessages # <<>>
  /\ botMessages[Len(botMessages)] = [id |-> Len(botMessages), botId |-> last.id, message |-> "hi",
                                      response |-> last.reply, timestamp |-> now]

\* C11: testMessage for an id with no stored record throws 'Bot not found' without
\* requesting a completion; when the completion call throws, testMessage throws the
\* generation failure; the route answers 500 and in neither case is a BotMessage created.
C11_TestFailuresLogNothing ==
  [][/\ (last'.op = "test" /\ last'.start /\ Truthy(last'.text) /\ last'.id \notin DOMAIN bots) =>
          /\ last'.status = 500 /\ last'.error = BotNotFound
          /\ last'.calls = {}
          /\ botMessages' = botMessages /\ procs' = procs
     /\ (last'.op = "test" /\ ~last'.start /\ last'.status # 200) =>
          /\ last'.status = 500 /\ last'.error = GenFailed
          /\ botMessages' = botMessages
     /\ (last'.op = "test" /\ last'.status = 500) => botMessages' = botMessages
    ]_vars

C11_Witness ==
  /\ last.op = "test" /\ ~last.start /\ last.status = 500 /\ last.error = GenFailed
  /\ last.id \in DOMAIN bots
  /\ \A i \in 1..Len(botMessages) : botMessages[i].botId # last.id

\* a POST has answered whose token passed the format check (a connection object was
\* built) and whose activation failed
PostRejected == last.op = "post" /\ ~last.start /\ last.conn # 0 /\ last.status # 201

\* C12 (as claimed): after a POST whose well-formed token the platform rejected, the
\* response is 400, the bot is stored with isActive = false and the registry holds
\* no entry for it.
C12_RejectedTokenStoredInactive ==
  PostRejected =>
    /\ last.status = 400
    /\ last.id \in DOMAIN bots /\ ~bots[last.id].isActive
    /\ ~Registered(last.id)

\* C12 (amended): after such a POST the response is 400, the store holds no record
\* for the bot (the route deletes it), the registry holds no entry for it and the
\* connection object the attempt built is not polling.
C12_RejectedTokenRollsBack ==
  PostRejected =>
    /\ last.status = 400
    /\ last.id \notin DOMAIN bots
    /\ ~Registered(last.id)
    /\ ~conns[last.conn].polling

C12_Witness ==
  /\ PostRejected /\ last.status = 400
  /\ conns[last.conn].token = [len |-> 20, prefix |-> TRUE]
  /\ last.id = nextBot

\* the rows of a bot, in creation order
RowsOf(botId) == SelectSeq(botMessages, LAMBDA m : m.botId = botId)
\* the n most recently created rows of a bot, the newest first
NewestRows(botId, n) ==
  LET rows == RowsOf(botId)
      k == Len(rows)
  IN [i \in 1..Min(n, k) |-> rows[k - i + 1]]

\* C13: getBotMessages(botId, n) returns the min(n, k) most recently created of the k
\* records of that bot, the newest first, and no record of another bot; without a
\* limit it returns what limit 50 returns.
C13_NewestFirst ==
  result.op = "getBotMessages" =>
    /\ result.rows = NewestRows(result.botId, result.limit)
    /\ \A i \in 1..Len(result.rows) : result.rows[i].botId = result.botId

\* what the sync under way has written so far, in order
Written == SubSeq(remote, sync.base + 1, Len(remote))
FirstFiles(n) == SubSeq(sync.files, 1, n)

\* C14: a sync writes its files one at a time in list order: while the i-th write is
\* awaited, files 1..i-1 and nothing else have been written; when the k-th write
\* fails the call reports failure, files 1..k-1 stay written, the k-th may or may not
\* be, and no later file is; a sync that ends well has written every file.
C14_SyncStopsAtFailure ==
  /\ sync.status = "running" => Written = FirstFiles(sync.i - 1)
  /\ sync.status = "ok" => Written = sync.files
  /\ sync.status = "failed" =>
       \/ Written = FirstFiles(sync.i - 1)
       \/ Written = FirstFiles(sync.i)

C14_Witness ==
  /\ sync.status = "failed" /\ sync.i = 2 /\ Len(sync.files) = 3
  /\ Written = FirstFiles(1)
  /\ sync.base > 0

\* C15: no two stored bot records have the same username.
C15_UniqueUsernames ==
  \A a, b \in DOMAIN bots : a # b => bots[a].username # bots[b].username

\* C16: when deleteProject(id) has returned, the store holds no file whose projectId
\* is id, and every file of another project that was stored before the call is still
\* stored, unchanged.
C16_DeleteProjectCascades ==
  result.op = "deleteProject" =>
    /\ \A k \in DOMAIN files : files[k].projectId # result.id
    /\ \A k \in DOMAIN result.before :
         result.before[k].projectId # result.id =>
           (k \in DOMAIN files /\ files[k] = result.before[k])

\* C17: the projectId of every stored file is the id of a stored project.
C17_FilesHaveProjects ==
  \A k \in DOMAIN files : files[k].projectId \in DOMAIN projects

\* C18: requests on one bot may overlap, but once none is in flight the stored
\* isActive flag of every bot is true exactly when the registry holds a connection
\* for its id and that connection is polling.
C18_QuiescentAgreement ==
  AllIdle =>
    \A id \in DOMAIN bots :
      bots[id].isActive <=> (Registered(id) /\ conns[tbots[id]].polling)

\* C19: a toggle request on a bot whose stored isActive flag and registry entry
\* disagree answers 200 and leaves the stored flag equal to the presence of a
\* registry entry for the bot.  Stored active with no entry: the toggle issues no
\* network call, so nothing outside the program can make it fail.  Stored inactive
\* with an entry: the toggle opens a connection, and is held to the claim when the
\* platform accepted it.
C19_ToggleReconciles ==
  /\ (tg.n = 1 /\ tg.flag0 /\ ~tg.reg0) =>
       (tg.ok /\ (bots[tg.id].isActive <=> Registered(tg.id)))
  /\ (tg.n = 1 /\ ~tg.flag0 /\ tg.reg0 /\ tg.ok) =>
       (bots[tg.id].isActive <=> Registered(tg.id))

\* C20: for an inbound or a test message of a bot one completion request is issued;
\* its system prompt is the bot's stored personality, its model, temperature and
\* max_tokens are the bot's stored gptModel, temperature and maxTokens, and a default
\* stands in only for a field that is not set.
C20_RequestCarriesBotConfig ==
  result.op \in {"handleMessage", "testMessage"} =>
    /\ Len(result.requests) = 1
    /\ LET c == result.botConfig
           r == result.requests[1]
       IN /\ r.user = JsString(result.message)
          /\ r.system = JsString(IF c.personality = Null THEN DefaultPersonality
                                 ELSE c.personality)
          /\ r.model = JsString(IF c.gptModel = Null THEN "gpt-5" ELSE c.gptModel)
          /\ r.temperature = (IF c.temperature = Null THEN 7 ELSE ParseFloat(c.temperature))
          /\ r.max_tokens = (IF c.maxTokens = Null THEN 150 ELSE ParseInt(c.maxTokens))

\* the record createBotMessage appends for a bot, a text and a response
Logged(botId, message, response) ==
  [id |-> Len(botMessages) + 1, botId |-> botId, message |-> message,
   response |-> response, timestamp |-> now]

\* C21: handling an inbound text of a stored bot first creates one record with the
\* text and a null response and requests one completion; when that succeeds it sends
\* the reply once and creates nothing; when the delivery succeeds it creates one
\* record with the same text and the reply and issues nothing more.  The steps come
\* in this order only, so a successful exchange creates exactly two records.
C21_ExchangeInOrder ==
  [][\A p \in Procs :
       /\ (procs[p].pc = "idle" /\ procs'[p].pc = "hGen") =>
            /\ botMessages' = Append(botMessages, Logged(procs'[p].bid, procs'[p].text, Null))
            /\ last'.calls = {"generate"}
       /\ (procs[p].pc = "hGen" /\ procs'[p].pc = "hSend") =>
            /\ botMessages' = botMessages
            /\ last'.calls = {"send"} /\ Truthy(procs'[p].reply) /\ last'.reply = procs'[p].reply
       /\ (procs[p].pc = "hSend" /\ procs'[p].pc = "idle") =>
            /\ botMessages' = Append(botMessages, Logged(procs[p].bid, procs[p].text, procs[p].reply))
            /\ last'.calls = {}
       /\ procs'[p].pc = "hGen" => procs[p].pc \in {"idle", "hGen"}
       /\ procs'[p].pc = "hSend" => procs[p].pc \in {"hGen", "hSend"}
    ]_vars

C21_Witness ==
  /\ last.op = "message" /\ ~last.start /\ last.status = 0 /\ last.calls = {}
  /\ Truthy(last.reply)
  /\ Len(botMessages) = 2
  /\ botMessages[1].message = "hi" /\ botMessages[1].response = Null
  /\ botMessages[2].message = "hi" /\ botMessages[2].response = last.reply
  /\ botMessages[1].botId = last.id /\ botMessages[2].botId = last.id

\* C22: when the completion call or the delivery of the reply fails, handleMessage
\* sends the apology once and creates no record; when the apology call has returned
\* the handler ends: it requests no completion, sends nothing more, has created no
\* record with a reply, and no error leaves it.
C22_FailureApologisesOnce ==
  [][\A p \in Procs :
       /\ (procs[p].pc \in {"hGen", "hSend"} /\ procs'[p].pc = "hApology") =>
            /\ last'.calls = {"send"} /\ last'.reply = Apology
            /\ botMessages' = botMessages
       /\ (procs[p].pc = "hApology" /\ procs'[p].pc # "hApology") =>
            /\ procs'[p].pc = "idle"
            /\ last'.calls = {}
            /\ botMessages' = botMessages
            /\ last'.status = 0
    ]_vars

\* C23: no two handlers of inbound messages of one bot are in flight at once: the
\* handler of a message has finished (both records, the completion request and the
\* reply) before the handler of the next message of that bot takes its first step.
C23_HandlersDoNotInterleave ==
  \A p, q \in Procs :
    (p # q /\ procs[p].op = "message" /\ procs[q].op = "message") =>
      procs[p].bid # procs[q].bid

\* C25: when the stopPolling that stopBot awaits for a registered connection throws,
\* stopBot still removes the registry entry of the id, stores isActive = false and
\* returns true.
C25_StopBotBestEffort ==
  [][\A p \in Procs :
       (StopBotResumed(p) /\ last'.status = 1) =>
         /\ procs[p].bid \notin DOMAIN tbots'
         /\ procs[p].bid \in DOMAIN bots' => ~bots'[procs[p].bid].isActive
         /\ procs'[p].ret
    ]_vars

C25_Witness ==
  \E p \in Procs :
    /\ procs[p].pc = "stopRet" /\ procs[p].ret
    /\ last.op = "stopBot" /\ last.status = 1 /\ last.conn # 0
    /\ procs[p].bid \in DOMAIN bots /\ ~bots[procs[p].bid].isActive
    /\ ~Registered(procs[p].bid)

\* C24: a PATCH whose body carries a telegramToken first stops the connection the
\* registry holds for the bot, then activates the bot with the new token: when the
\* request completes, either the registry holds for the bot a polling connection
\* opened with the new token and the stored isActive flag is true, or the activation
\* failed, the registry holds no connection for the bot and the flag is false.
C24_TokenPatchRestarts ==
  [][\A p \in Procs :
       /\ (procs[p].op = "patch" /\ StopBotResumed(p)) =>
            /\ ~conns'[procs[p].conn].polling
            /\ procs[p].id \notin DOMAIN tbots'
       /\ (procs[p].op = "patch" /\ procs[p].pc = "createRet" /\ procs'[p].pc = "idle") =>
            LET id == procs[p].id
            IN /\ id \in DOMAIN bots'
               /\ IF procs[p].ret
                  THEN /\ id \in DOMAIN tbots'
                       /\ conns'[tbots'[id]].polling
                       /\ conns'[tbots'[id]].token = procs[p].tok
                       /\ bots'[id].isActive
                  ELSE /\ id \notin DOMAIN tbots'
                       /\ ~bots'[id].isActive
       /\ (procs[p].op = "patch" /\ procs'[p].pc \in {"getMe", "createRet"}) =>
            procs[p].pc \in {"stopRet", "getMe", "startPolling", "createRet"}
    ]_vars

\* a stopAllBots call is in flight; the step before was the end of one
StopAllRunning == \E p \in Procs : procs[p].op = "stopAll"
StopAllDone == last.op = "stopAll" /\ ~StopAllRunning

\* C26: a stopAllBots call started while no activation is in flight comes to an end,
\* and when it has ended the registry is empty and every bot the registry held when
\* it started has stored isActive = false, whether or not a stopPolling threw.
C26_StopAllEmptiesRegistry ==
  /\ [](StopAllDone => (DOMAIN tbots = {} /\ \A id \in result.ids : StoredInactive(id)))
  /\ (StopAllRunning ~> StopAllDone)

C26_Witness ==
  \E p \in Procs :
    /\ procs[p].op = "stopAll" /\ procs[p].pc = "stopRet" /\ procs[p].todo = {}
    /\ last.op = "stopBot" /\ last.status = 1
    /\ result.ids = {1, 2}
    /\ DOMAIN tbots = {}
    /\ \A id \in {1, 2} : id \in DOMAIN bots /\ ~bots[id].isActive

\* the polling-error listener of connection c, registered for bot b, awaits the stop
\* of c
StoppingAfter404(c, b) ==
  \E p \in Procs :
    /\ procs[p].op = "pollerr" /\ procs[p].pc = "stopPolling"
    /\ procs[p].conn = c /\ procs[p].bid = b

\* C27: a polling error whose message contains '404 Not Found', reported by the
\* connection the registry holds for a bot, makes the listener stop that connection:
\* it is eventually not polling and not in the registry, and the stored isActive flag
\* is false.  A polling error with any other message changes neither the registry,
\* nor a connection, nor a stored record, and starts nothing.
C27_PersistentErrorDeactivates ==
  /\ [][/\ (last'.op = "pollerr" /\ last'.start /\ last'.error # NotFound404) =>
             (tbots' = tbots /\ conns' = conns /\ bots' = bots /\ procs' = procs)
        /\ (last'.op = "pollerr" /\ last'.start /\ last'.error = NotFound404
               /\ last'.id \in DOMAIN tbots /\ tbots[last'.id] = last'.conn) =>
             \E p \in Procs :
               /\ procs'[p].op = "pollerr" /\ procs'[p].pc = "stopPolling"
               /\ procs'[p].conn = last'.conn /\ procs'[p].bid = last'.id
        /\ \A p \in Procs :
             (procs[p].op = "pollerr" /\ StopBotResumed(p)) =>
               /\ ~conns'[procs[p].conn].polling
               /\ procs[p].bid \notin DOMAIN tbots'
               /\ procs[p].bid \in DOMAIN bots' => ~bots'[procs[p].bid].isActive
       ]_vars
  /\ \A c \in 1..MaxConns, b \in BotIds :
       StoppingAfter404(c, b) ~>
         (/\ c \in 1..Len(conns) /\ ~conns[c].polling
          /\ ~(b \in DOMAIN tbots /\ tbots[b] = c)
          /\ StoredInactive(b))

C27_Witness ==
  \E p \in Procs :
    /\ procs[p].op = "pollerr" /\ procs[p].pc = "stopRet" /\ procs[p].ret
    /\ procs[p].conn # 0 /\ ~conns[procs[p].conn].polling
    /\ procs[p].bid \in DOMAIN bots /\ ~bots[procs[p].bid].isActive
    /\ ~Registered(procs[p].bid)

\* C28: whenever no request or callback is in flight, every id the registry holds a
\* connection for is the id of a stored bot.
C28_RegistryKeysStored ==
  AllIdle => \A id \in DOMAIN tbots : id \in DOMAIN bots

C30_KeyIsOwnId ==
  /\ \A k \in DOMAIN bots : bots[k].id = k
  /\ \A k \in DOMAIN projects : projects[k].id = k
  /\ \A k \in DOMAIN files : files[k].id = k

====
